---- MODULE Spec2Model ----
(***************************************************************************)
(* recoverlette (src/recover.py): one run of main(), the cover-letter      *)
(* workflow  authenticate -> locate -> fetch -> scan -> substitute ->      *)
(* upload -> wait -> convert/save -> delete,  together with the pure       *)
(* document functions find_placeholders_in_docx and replace_placeholders.  *)
(*                                                                         *)
(* A text is a tuple of one-character strings.  A document is what         *)
(* python-docx exposes to the script: body paragraphs and table-cell       *)
(* paragraphs, each a tuple of runs with a text and a font colour.         *)
(* main() is a coroutine: a state of the model is a point where it is      *)
(* suspended on an await (or about to run one of its two synchronous       *)
(* document passes), an action is the completion of that await together    *)
(* with the code that runs up to the next one.                             *)
(***************************************************************************)
EXTENDS Integers, Sequences, FiniteSets, TLC

(***************************************************************************)
(* Bounds of the model.                                                    *)
(***************************************************************************)
\* runs per paragraph of a template
MaxRuns == 2

(***************************************************************************)
(* Python str operations used by the script, on tuples of characters.      *)
(***************************************************************************)
SetMin(S) == CHOOSE i \in S : \A j \in S : i <= j

\* sub occurs in s at index i (1-based)
IsAt(sub, s, i) ==
    /\ i >= 1
    /\ i + Len(sub) - 1 <= Len(s)
    /\ SubSeq(s, i, i + Len(sub) - 1) = sub

\* str.find(sub, from), 1-based; 0 when absent
Find(sub, s, from) ==
    LET hits == {i \in from..(Len(s) - Len(sub) + 1) : IsAt(sub, s, i)}
    IN  IF hits = {} THEN 0 ELSE SetMin(hits)

\* `sub in s`
str_in(sub, s) == Find(sub, s, 1) # 0

\* s.replace(old, new): every non-overlapping occurrence, left to right
RECURSIVE ReplaceFrom(_, _, _, _)
ReplaceFrom(s, old, new, pos) ==
    LET i == Find(old, s, pos)
    IN  IF i = 0
        THEN SubSeq(s, pos, Len(s))
        ELSE SubSeq(s, pos, i - 1) \o new \o ReplaceFrom(s, old, new, i + Len(old))

\* s.replace(old, new, 1): the first occurrence alone
str_replace_first(s, old, new) ==
    LET i == Find(old, s, 1)
    IN  IF i = 0 THEN s
        ELSE SubSeq(s, 1, i - 1) \o new \o SubSeq(s, i + Len(old), Len(s))

str_replace(s, old, new) == ReplaceFrom(s, old, new, 1)

\* s.strip(): the only whitespace of the model's alphabet is the blank
RECURSIVE lstrip(_)
lstrip(s) == IF s # <<>> /\ Head(s) = " " THEN lstrip(Tail(s)) ELSE s

RECURSIVE rstrip(_)
rstrip(s) ==
    IF s # <<>> /\ s[Len(s)] = " " THEN rstrip(SubSeq(s, 1, Len(s) - 1)) ELSE s

strip(s) == rstrip(lstrip(s))

\* s.startswith(p)
startswith(s, p) == Len(s) >= Len(p) /\ SubSeq(s, 1, Len(p)) = p

Open == <<"[", "[">>
Close == <<"]", "]">>

\* f"[[{key}]]"
placeholder(key) == Open \o key \o Close

\* re.compile(r"\[\[(.*?)\]\]").findall(s): leftmost opening delimiter, then
\* the first closing delimiter after it (non-greedy), then on from behind it
RECURSIVE FindAllFrom(_, _)
FindAllFrom(s, pos) ==
    LET i == Find(Open, s, pos)
    IN  IF i = 0
        THEN {}
        ELSE LET j == Find(Close, s, i + 2)
             IN  IF j = 0
                 THEN {}
                 ELSE {SubSeq(s, i + 2, j - 1)} \cup FindAllFrom(s, j + 2)

\* the set of the groups findall captures
placeholder_pattern_findall(s) == FindAllFrom(s, 1)

ADDL_PREFIX == <<"A", "D", "D", "L", "_">>

(***************************************************************************)
(* Documents and byte strings.                                             *)
(***************************************************************************)
NoColor == "None"
Black == "000000"

Run(t, look) ==
    [text |-> t, rgb |-> look.rgb, theme |-> look.theme, style |-> look.style]

\* paragraph.text: the run texts joined
RECURSIVE para_text(_)
para_text(para) ==
    IF para = <<>> THEN <<>> ELSE Head(para).text \o para_text(Tail(para))

EmptyDoc == [body |-> <<>>, cells |-> <<>>, has_default_style |-> TRUE]

\* a byte string: a .docx package (parsed: doc), or bytes that docx.Document
\* rejects (n of them), or the absent value None.  ser tells the package as
\* downloaded from the one document.save() wrote (a fresh zip archive).
NoneBytes == [kind |-> "None", doc |-> EmptyDoc, ser |-> "none", n |-> 0]
RawBytes(len) == [kind |-> "raw", doc |-> EmptyDoc, ser |-> "orig", n |-> len]
DocxBytes(d) == [kind |-> "docx", doc |-> d, ser |-> "orig", n |-> 1]
SavedBytes(d) == [kind |-> "docx", doc |-> d, ser |-> "saved", n |-> 1]

\* docx.Document(io.BytesIO(content_bytes)) succeeds
Parses(content) == content.kind = "docx"

\* the paragraphs the two loops of the script visit: document.paragraphs, then
\* the paragraphs of every cell of every row of every table
AllParas(d) == d.body \o d.cells

(***************************************************************************)
(* find_placeholders_in_docx                                               *)
(***************************************************************************)
\* the keys of a paragraph from its runs alone, without the scan of the
\* paragraph text
ParaKeys_runs_only(para) ==
    {strip(m) : m \in
        UNION {placeholder_pattern_findall(para[i].text) : i \in 1..Len(para)}}

\* the keys one paragraph adds: findall on every run, then on the paragraph
\* text, each match stripped
ParaKeys(para) ==
    {strip(m) : m \in
        UNION {placeholder_pattern_findall(para[i].text) : i \in 1..Len(para)}
        \cup placeholder_pattern_findall(para_text(para))}

find_placeholders_in_docx(content) ==
    IF ~Parses(content)
    THEN {}
    ELSE UNION {ParaKeys(AllParas(content.doc)[i]) :
                    i \in 1..Len(AllParas(content.doc))}

(***************************************************************************)
(* replace_placeholders                                                    *)
(***************************************************************************)
\* A dict is the tuple of its items in insertion order.
DictHas(d, k) == \E i \in 1..Len(d) : d[i].key = k

\* d[k] = v: a present key keeps its position, a new key goes last
DictSet(d, k, v) ==
    IF DictHas(d, k)
    THEN [i \in 1..Len(d) |-> IF d[i].key = k THEN [key |-> k, value |-> v] ELSE d[i]]
    ELSE Append(d, [key |-> k, value |-> v])

DictKeys(d) == {d[i].key : i \in 1..Len(d)}

\* the orders in which `for key in addl_to_remove` may visit a set
Orders(S) ==
    {o \in [1..Cardinality(S) -> S] : \A i, j \in 1..Cardinality(S) : o[i] = o[j] => i = j}

\* all_replacements = {**defined_replacements}, then every key of
\* addl_to_remove (visited in the order addl_order) mapped to ""
RECURSIVE all_replacements(_, _)
all_replacements(defined_replacements, addl_order) ==
    IF addl_order = <<>>
    THEN defined_replacements
    ELSE all_replacements(DictSet(defined_replacements, Head(addl_order), <<>>),
                          Tail(addl_order))

\* the loop over all_replacements.items() on the text of one run:
\* text_to_modify and replacement_done_in_run
RECURSIVE replace_in_run(_, _, _)
replace_in_run(text_to_modify, replacement_done_in_run, items) ==
    IF items = <<>>
    THEN [text |-> text_to_modify, done |-> replacement_done_in_run]
    ELSE IF str_in(placeholder(Head(items).key), text_to_modify)
         THEN replace_in_run(
                  str_replace(text_to_modify, placeholder(Head(items).key),
                              Head(items).value),
                  TRUE, Tail(items))
         ELSE replace_in_run(text_to_modify, replacement_done_in_run, Tail(items))

\* the body of the loop of process_paragraph_runs for one run
process_run(run, items, preserve_color, force_all_black, has_default_style) ==
    LET r == replace_in_run(run.text, FALSE, items)
    IN  IF ~r.done
        THEN run
        ELSE IF preserve_color /\ ~force_all_black
        THEN [text  |-> r.text,
              rgb   |-> run.rgb,
              theme |-> IF run.rgb # NoColor THEN NoColor ELSE run.theme,
              style |-> run.style]
        ELSE IF ~force_all_black
        THEN [text  |-> r.text,
              rgb   |-> Black,
              theme |-> NoColor,
              style |-> IF has_default_style
                        THEN "Default Paragraph Font" ELSE run.style]
        ELSE [run EXCEPT !.text = r.text]

process_paragraph_runs(paragraph, items, preserve_color, force_all_black, has_default_style) ==
    [i \in 1..Len(paragraph) |->
        process_run(paragraph[i], items, preserve_color, force_all_black,
                    has_default_style)]

\* the final loops leaving every run as it is
paint_nothing(paragraph) == paragraph

\* the final loops under force_all_black: every run of a paragraph to black
paint_it_black(paragraph) ==
    [i \in 1..Len(paragraph) |->
        [paragraph[i] EXCEPT !.rgb = Black, !.theme = NoColor]]

\* the document after both passes
ReplacedDoc(d, items, preserve_color, force_all_black) ==
    LET pass(p) ==
            LET q == process_paragraph_runs(p, items, preserve_color,
                                            force_all_black, d.has_default_style)
            IN  IF force_all_black THEN paint_it_black(q) ELSE q
    IN  [body  |-> [i \in 1..Len(d.body) |-> pass(d.body[i])],
         cells |-> [i \in 1..Len(d.cells) |-> pass(d.cells[i])],
         has_default_style |-> d.has_default_style]

\* replace_placeholders without the early return
replace_placeholders_no_fast_path(content_bytes, defined_replacements, addl_order, preserve_color, force_all_black) ==
    IF ~Parses(content_bytes)
    THEN NoneBytes
    ELSE SavedBytes(ReplacedDoc(content_bytes.doc,
                                all_replacements(defined_replacements, addl_order),
                                preserve_color, force_all_black))

\* replace_placeholders handing back bytes it cannot parse instead of None
replace_placeholders_unparsed_through(content_bytes, defined_replacements, addl_order, preserve_color, force_all_black) ==
    IF ~Parses(content_bytes)
    THEN content_bytes
    ELSE IF all_replacements(defined_replacements, addl_order) = <<>>
    THEN content_bytes
    ELSE SavedBytes(ReplacedDoc(content_bytes.doc,
                                all_replacements(defined_replacements, addl_order),
                                preserve_color, force_all_black))

\* replace_placeholders(content_bytes, defined_replacements, addl_to_remove,
\* preserve_color, force_all_black); addl_order is the order in which the set
\* addl_to_remove is iterated.  None when the package does not parse.
replace_placeholders(content_bytes, defined_replacements, addl_order, preserve_color, force_all_black) ==
    IF ~Parses(content_bytes)
    THEN NoneBytes
    ELSE IF all_replacements(defined_replacements, addl_order) = <<>>
    THEN content_bytes
    ELSE SavedBytes(ReplacedDoc(content_bytes.doc,
                                all_replacements(defined_replacements, addl_order),
                                preserve_color, force_all_black))

(***************************************************************************)
(* main(): the classification of the placeholders found                    *)
(***************************************************************************)
\* the classification without the test of the prefix: every undefined key
\* is removed
addl_keys_all(found_placeholders, definitions) ==
    {ph \in found_placeholders : ph \notin DictKeys(definitions)}

\* found keys without a definition that start with ADDL_
addl_keys(found_placeholders, definitions) ==
    {ph \in found_placeholders :
        ph \notin DictKeys(definitions) /\ startswith(ph, ADDL_PREFIX)}

\* found keys without a definition that do not: listed in the warning
\* "Undefined Placeholders Found"
reportable_keys(found_placeholders, definitions) ==
    {ph \in found_placeholders :
        ph \notin DictKeys(definitions) /\ ~startswith(ph, ADDL_PREFIX)}

(***************************************************************************)
(* The inputs of a run: the -D definitions and the templates the store     *)
(* may hold.                                                               *)
(***************************************************************************)
K == <<"K">>
ADDL_N == ADDL_PREFIX \o <<"N">>

\* the texts a run of a template may carry: whole tokens, two tokens around
\* plain text, a token with blanks inside the delimiters, a token inside a
\* second pair of delimiters, and the pieces of tokens that formatting has
\* split over two runs
RunTexts == {
    placeholder(K),
    placeholder(K) \o <<"x">> \o placeholder(K),
    Open,
    K \o Close,
    placeholder(<<" ">> \o K \o <<" ">>),
    placeholder(placeholder(K)),
    placeholder(ADDL_N),
    ADDL_N \o Close }

\* the run texts of a paragraph
ParaTexts == UNION {[1..n -> RunTexts] : n \in 0..MaxRuns}

MakePara(texts, look) == [i \in 1..Len(texts) |-> Run(texts[i], look)]

\* the two kinds of template: a body paragraph of runs with an RGB colour in
\* a package that has the character style 'Default Paragraph Font', and a
\* table-cell paragraph of runs with a theme colour in a package without it
TemplateKinds == {
    [in_table |-> FALSE, has_default_style |-> TRUE,
     look |-> [rgb |-> "FF0000", theme |-> NoColor, style |-> "Emphasis"]],
    [in_table |-> TRUE, has_default_style |-> FALSE,
     look |-> [rgb |-> NoColor, theme |-> "ACCENT_1", style |-> "Emphasis"]] }

\* a template has one paragraph (the script treats every paragraph on its own)
Templates ==
    {[body |-> IF k.in_table THEN <<>> ELSE <<MakePara(t, k.look)>>,
      cells |-> IF k.in_table THEN <<MakePara(t, k.look)>> ELSE <<>>,
      has_default_style |-> k.has_default_style] :
        t \in ParaTexts, k \in TemplateKinds}

\* what the content download can deliver: a template, no bytes at all, or
\* bytes that are no .docx package
Contents == {DocxBytes(d) : d \in Templates} \cup {RawBytes(0), RawBytes(1)}

Item(k, v) == [key |-> k, value |-> v]

\* the dicts -D can build (keys and values stripped by DefineAction)
DefinitionMaps == {
    <<>>,
    <<Item(K, K)>>,
    <<Item(K, placeholder(K) \o <<"!">>)>> }

(***************************************************************************)
(* The remote calls, as functions of what the store answers.               *)
(***************************************************************************)
None == "None"

\* get_authenticated_client: the credential kept in the global
\* auth_credential, and the client returned (None on every failure)
AuthOutcomes ==
    {"cred_error", "named_user", "unnamed_user", "no_user", "odata_error", "error"}

get_authenticated_client(outcome) ==
    [auth_credential |-> IF outcome = "cred_error" THEN None ELSE "credential",
     client |-> IF outcome \in {"named_user", "unnamed_user"} THEN "client" ELSE None]

\* get_drive_item_details: the answers of me.drive.get, items[path].get and
\* root.get; a status other than "ok" is an exception raised by the call
DriveAnswers == {[status |-> "ok", id |-> "drive1"], [status |-> "ok", id |-> None],
                 [status |-> "odata_error", id |-> None]}

ItemAnswers == {[status |-> "ok", id |-> "item1", parent |-> "folder1"],
                [status |-> "ok", id |-> "item1", parent |-> None],
                [status |-> "ok", id |-> "root1", parent |-> None],
                [status |-> "ok", id |-> None, parent |-> None],
                [status |-> "odata_error", id |-> None, parent |-> None],
                [status |-> "error", id |-> None, parent |-> None]}

RootAnswers == {[status |-> "ok", id |-> "root1"], [status |-> "ok", id |-> None],
                [status |-> "error", id |-> None]}

\* get_drive_item_details giving an item without a parent reference its own
\* id as parent, without asking for the root
get_drive_item_details_own_parent(drive_info, drive_item, root_item) ==
    IF drive_info.status # "ok" \/ drive_info.id = None
    THEN [item_id |-> None, parent_folder_id |-> None, drive_id |-> None]
    ELSE IF drive_item.status # "ok" \/ drive_item.id = None
    THEN [item_id |-> None, parent_folder_id |-> None, drive_id |-> drive_info.id]
    ELSE [item_id |-> drive_item.id,
          parent_folder_id |-> IF drive_item.parent # None THEN drive_item.parent
                               ELSE drive_item.id,
          drive_id |-> drive_info.id]

get_drive_item_details(drive_info, drive_item, root_item) ==
    IF drive_info.status # "ok" \/ drive_info.id = None
    THEN [item_id |-> None, parent_folder_id |-> None, drive_id |-> None]
    ELSE IF drive_item.status # "ok" \/ drive_item.id = None
    THEN [item_id |-> None, parent_folder_id |-> None, drive_id |-> drive_info.id]
    ELSE IF drive_item.parent # None
    THEN [item_id |-> drive_item.id, parent_folder_id |-> drive_item.parent,
          drive_id |-> drive_info.id]
    ELSE IF root_item.status # "ok" \/ root_item.id = None
    THEN [item_id |-> drive_item.id, parent_folder_id |-> None,
          drive_id |-> drive_info.id]
    ELSE [item_id |-> drive_item.id, parent_folder_id |-> root_item.id,
          drive_id |-> drive_info.id]

\* the three answers of one call of get_drive_item_details: a request that is
\* not made has no answer (written as the failed one)
LocateCalls(drive_info, drive_item, root_item) ==
    /\ (drive_info.status # "ok" \/ drive_info.id = None)
            => drive_item.status = "error"
    /\ (drive_item.status # "ok" \/ drive_item.id = None \/ drive_item.parent # None)
            => root_item.status = "error"

\* the test of main looking at the item id alone
details_missing_item_only(d) == d.item_id = None

\* main: `if not original_item_id or not parent_folder_id or not drive_id`
details_missing(d) ==
    d.item_id = None \/ d.parent_folder_id = None \/ d.drive_id = None

\* get_file_content: the body as bytes or as a stream, an object of another
\* type, or an exception
FetchAnswers == {"bytes", "stream", "unexpected", "odata_error", "error"}

get_file_content(answer, body) ==
    IF answer \in {"bytes", "stream"} THEN body ELSE NoneBytes

\* Path(name).suffix and Path(name).stem of a file name: the name is cut at
\* its last dot unless that is its first or its last character
LastDot(name) ==
    LET dots == {i \in 1..Len(name) : name[i] = "."}
    IN  IF dots = {} THEN 0 ELSE CHOOSE i \in dots : \A j \in dots : j <= i

HasSuffix(name) == 1 < LastDot(name) /\ LastDot(name) < Len(name)

path_suffix(name) ==
    IF HasSuffix(name) THEN SubSeq(name, LastDot(name), Len(name)) ELSE <<>>

path_stem(name) ==
    IF HasSuffix(name) THEN SubSeq(name, 1, LastDot(name) - 1) ELSE name

\* what uuid.uuid4().hex can be
Hexes == {<<"0">>}

\* the temporary file given the name of the template
temp_filename_of_template(name, hex) == name

\* f"{original_path.stem}_temp_{uuid.uuid4().hex}{original_path.suffix}"
temp_filename_of(name, hex) ==
    path_stem(name) \o <<"_", "t", "e", "m", "p", "_">> \o hex \o path_suffix(name)

\* file names a template may have: with and without a suffix, with a dot in
\* front, with a dot at the end, ending like a temporary file
FileNames == {<<"a", ".", "d">>, <<"a">>, <<".", "a">>, <<"a", ".">>,
              <<"a", ".", "b", ".", "d">>,
              <<"a", "_", "t", "e", "m", "p", "_", "0", ".", "d">>}

\* the file name of the template of the run
InputNames == {<<"a", ".", "d">>}

\* upload_temp_file: the id of the item that holds the content afterwards
\* (a PUT on the name of the template writes the template itself), None
\* without one
UploadAnswers == {"ok", "no_id", "odata_error", "error"}

upload_temp_file(answer, filename, template_name) ==
    IF answer # "ok" THEN None
    ELSE IF filename = template_name THEN "item1" ELSE "temp1"

\* the conversion request download_as_pdf makes once it has the token (the
\* download of the redirect target of a 302 answer is part of it)
ConvertRequest == "content.get?format=pdf"

TokenAnswers == {"ok", "none", "error"}
ConvertAnswers == {"302", "302_no_location", "200", "404", "request_error"}
PdfGetAnswers == {"ok", "http_error"}
\* the sizes of a converted body: none, below the 1000 bytes under which the
\* saved file is called very small, and above
PdfSizes == {0, 500, 5000}
WriteAnswers == {"ok", "io_error"}

\* the answers of one call of download_as_pdf: a request that is not made has
\* no answer (written as the failed one), bytes that do not arrive have size 0
PdfCalls(token, convert, pdf_get, size, write) ==
    /\ token # "ok" => convert = "request_error"
    /\ convert # "302" => pdf_get = "http_error"
    /\ (convert \notin {"302", "200"} \/ (convert = "302" /\ pdf_get # "ok"))
            => size = 0
    /\ size = 0 => write = "io_error"

\* the bytes download_as_pdf holds when it reaches `if not pdf_bytes`, -1 when
\* it has returned False before
pdf_bytes_len(credential, token, convert, pdf_get, size) ==
    IF credential = None \/ token # "ok" THEN -1
    ELSE IF convert = "302" THEN (IF pdf_get = "ok" THEN size ELSE -1)
    ELSE IF convert = "200" THEN size
    ELSE -1

\* the size under which the saved file is called very small
SMALL_PDF == 1000

\* `if len(pdf_bytes) < 1000`: the warning that follows a successful save
very_small(n) == n < SMALL_PDF

\* download_as_pdf writing whatever body it got, an empty one too
reaches_write_empty_too(credential, token, convert, pdf_get, size) ==
    pdf_bytes_len(credential, token, convert, pdf_get, size) >= 0

\* the local write is attempted
reaches_write(credential, token, convert, pdf_get, size) ==
    pdf_bytes_len(credential, token, convert, pdf_get, size) > 0

\* the requests download_as_pdf has made when it returns: the conversion
\* request, once it has a token
pdf_requests(credential, token) ==
    IF credential = None \/ token # "ok" THEN <<>> ELSE <<ConvertRequest>>

\* the value download_as_pdf returns
download_as_pdf(credential, token, convert, pdf_get, size, write) ==
    reaches_write(credential, token, convert, pdf_get, size) /\ write = "ok"

\* the finally block deleting whenever there is a temporary item
should_delete_always(temp, saved) == temp # None

\* the finally block with the test of local_save_successful inverted
should_delete_inverted(temp, saved) == temp # None /\ ~saved

\* the finally block of main: the temporary item is deleted
should_delete(temp, saved) == temp # None /\ saved

DeleteAnswers == {"ok", "odata_error", "error"}

delete_drive_item(answer) == answer = "ok"

(***************************************************************************)
(* The state of one run.                                                   *)
(***************************************************************************)
VARIABLES
    pc,                     \* where main() stands
    input_name,             \* the file name of args.input
    definitions,            \* args.definitions
    preserve_color,         \* args.preserve_color
    force_all_black,        \* args.force_all_black
    auth_credential,        \* the module-level credential
    client,                 \* main: client
    original_item_id,       \* main: the triple of get_drive_item_details
    parent_folder_id,
    drive_id,
    original_content,       \* main: the template bytes
    found_placeholders,     \* main: the keys the scan returned
    addl_to_remove,         \* main: undefined ADDL_ keys
    reportable_undefined,   \* main: the keys listed in the warning
    updated_content,        \* main: the substituted bytes
    temp_filename,          \* main: the name of the temporary file
    temp_item_id,           \* main: the id upload_temp_file returned
    local_save_successful,  \* main: what download_as_pdf returned
    pdf_bytes,              \* download_as_pdf: len(pdf_bytes), -1 without them
    local_file,             \* the file at output_local_path
    remote_items,           \* the items of the store this run knows of
    calls,                  \* the remote calls issued, oldest first
    stages,                 \* the stages of the workflow started, oldest first
    failed,                 \* the stage main() stopped at, None without one
    interrupted,            \* the user has interrupted the run
    calls_at_interrupt,     \* the number of calls issued when that happened
    exit_status             \* the status of the process, -1 while it runs

vars == <<pc, input_name, definitions, preserve_color, force_all_black, auth_credential,
          client, original_item_id, parent_folder_id, drive_id,
          original_content, found_placeholders, addl_to_remove,
          reportable_undefined, updated_content, temp_filename, temp_item_id,
          local_save_successful, pdf_bytes, local_file, remote_items, calls,
          stages, failed, interrupted, calls_at_interrupt, exit_status>>

args == <<input_name, definitions, preserve_color, force_all_black>>
located == <<original_item_id, parent_folder_id, drive_id>>
scanned == <<found_placeholders, addl_to_remove, reportable_undefined>>

\* the stages of the workflow, in the order main() goes through them
StageOrder == <<"Authenticating", "Locating", "Fetching", "Scanning",
                "Substituting", "Uploading", "Converting", "Saving", "Cleaning">>

\* the states in which main() is suspended on an await
Awaiting == {"Authenticating", "Locating", "Fetching", "Uploading", "Waiting",
             "Converting", "Cleaning"}

\* the states in which main() has not ended
Running == Awaiting \cup {"Scanning", "Substituting"}

\* the states in which main() is inside its try block
InTry == {"Waiting", "Converting"}

\* the finally block is left without the decision on the temporary item
finally_block_skipped(st) == st

\* the finally block of main: the decision on the temporary item is taken
\* (the delete itself is should_delete)
finally_block(st) == Append(st, "Cleaning")

Init ==
    /\ pc = "Authenticating"
    /\ input_name \in InputNames
    /\ definitions \in DefinitionMaps
    /\ preserve_color \in BOOLEAN
    /\ force_all_black \in BOOLEAN
    /\ auth_credential = None
    /\ client = None
    /\ original_item_id = None
    /\ parent_folder_id = None
    /\ drive_id = None
    /\ original_content = NoneBytes
    /\ found_placeholders = {}
    /\ addl_to_remove = {}
    /\ reportable_undefined = {}
    /\ updated_content = NoneBytes
    /\ temp_filename = <<>>
    /\ temp_item_id = None
    /\ local_save_successful = FALSE
    /\ pdf_bytes = -1
    /\ local_file = "absent"
    /\ remote_items = {"item1"}
    /\ calls = <<"me.get">>
    /\ stages = <<"Authenticating">>
    /\ failed = None
    /\ interrupted = FALSE
    /\ calls_at_interrupt = -1
    /\ exit_status = -1

\* a main() that enters the stage it stopped at once more
retry_stage(stage) == stage

\* where main() stands after a `return`: nothing of it runs again
after_return(stage) == "Exited"

\* main() returns (every `return` of main and its last line alike): asyncio.run
\* returns, "Main execution finished." is logged and the process ends with
\* status 0
Return(stage) ==
    /\ pc' = after_return(stage)
    /\ failed' = stage
    /\ exit_status' = 0

\* client = await get_authenticated_client()
Authenticate ==
    /\ pc = "Authenticating"
    /\ \E outcome \in AuthOutcomes :
        LET r == get_authenticated_client(outcome)
        IN  /\ auth_credential' = r.auth_credential
            /\ client' = r.client
            /\ IF r.client = None
               THEN /\ Return("Authenticating")
                    /\ UNCHANGED <<calls, stages>>
               ELSE /\ pc' = "Locating"
                    /\ calls' = Append(calls, "drive.get")
                    /\ stages' = Append(stages, "Locating")
                    /\ UNCHANGED <<failed, exit_status>>
    /\ UNCHANGED <<args, located, original_content, scanned, updated_content,
                   temp_filename, temp_item_id, local_save_successful, pdf_bytes, local_file,
                   remote_items, interrupted, calls_at_interrupt>>

\* ... = await get_drive_item_details(client, input_onedrive_path)
Locate ==
    /\ pc = "Locating"
    /\ \E drive_info \in DriveAnswers, drive_item \in ItemAnswers,
          root_item \in RootAnswers :
        LET d == get_drive_item_details(drive_info, drive_item, root_item)
        IN  /\ LocateCalls(drive_info, drive_item, root_item)
            /\ original_item_id' = d.item_id
            /\ parent_folder_id' = d.parent_folder_id
            /\ drive_id' = d.drive_id
            /\ IF details_missing(d)
               THEN /\ Return("Locating")
                    /\ UNCHANGED <<calls, stages>>
               ELSE /\ pc' = "Fetching"
                    /\ calls' = Append(calls, "content.get")
                    /\ stages' = Append(stages, "Fetching")
                    /\ UNCHANGED <<failed, exit_status>>
    /\ UNCHANGED <<args, auth_credential, client, original_content, scanned,
                   updated_content, temp_filename, temp_item_id, local_save_successful, pdf_bytes,
                   local_file, remote_items, interrupted, calls_at_interrupt>>

\* original_content = await get_file_content(client, drive_id, original_item_id)
Fetch ==
    /\ pc = "Fetching"
    /\ \E answer \in FetchAnswers, body \in Contents :
        /\ answer \notin {"bytes", "stream"} => body = RawBytes(0)
        /\ original_content' = get_file_content(answer, body)
        /\ IF get_file_content(answer, body) = NoneBytes
           THEN /\ Return("Fetching")
                /\ UNCHANGED stages
           ELSE /\ pc' = "Scanning"
                /\ stages' = Append(stages, "Scanning")
                /\ UNCHANGED <<failed, exit_status>>
    /\ UNCHANGED <<args, auth_credential, client, located, scanned,
                   updated_content, temp_filename, temp_item_id, local_save_successful, pdf_bytes,
                   local_file, remote_items, calls, interrupted, calls_at_interrupt>>

\* found_placeholders = find_placeholders_in_docx(original_content) and the
\* classification of the keys found
Scan ==
    /\ pc = "Scanning"
    /\ found_placeholders' = find_placeholders_in_docx(original_content)
    /\ addl_to_remove' = addl_keys(found_placeholders', definitions)
    /\ reportable_undefined' = reportable_keys(found_placeholders', definitions)
    /\ pc' = "Substituting"
    /\ stages' = Append(stages, "Substituting")
    /\ UNCHANGED <<args, auth_credential, client, located, original_content,
                   updated_content, temp_filename, temp_item_id, local_save_successful, pdf_bytes,
                   local_file, remote_items, calls, failed, interrupted, calls_at_interrupt,
                   exit_status>>

\* updated_content_or_none = replace_placeholders(...), then the upload of the
\* result is started
Substitute ==
    /\ pc = "Substituting"
    /\ \E addl_order \in Orders(addl_to_remove) :
        /\ updated_content' =
               replace_placeholders(original_content, definitions, addl_order,
                                    preserve_color, force_all_black)
        /\ IF updated_content' = NoneBytes
           THEN /\ Return("Substituting")
                /\ UNCHANGED <<calls, stages, temp_filename>>
           ELSE /\ pc' = "Uploading"
                /\ \E hex \in Hexes :
                        temp_filename' = temp_filename_of(input_name, hex)
                /\ calls' = Append(calls, "content.put")
                /\ stages' = Append(stages, "Uploading")
                /\ UNCHANGED <<failed, exit_status>>
    /\ UNCHANGED <<args, auth_credential, client, located, original_content,
                   scanned, temp_item_id, local_save_successful, pdf_bytes, local_file,
                   remote_items, interrupted, calls_at_interrupt>>

\* temp_item_id = await upload_temp_file(...); a call that raised may or may
\* not have created the item
Upload ==
    /\ pc = "Uploading"
    /\ \E answer \in UploadAnswers, created \in BOOLEAN :
        /\ answer \in {"ok", "no_id"} => created
        /\ answer = "odata_error" => ~created
        /\ temp_item_id' = upload_temp_file(answer, temp_filename, input_name)
        /\ remote_items' =
               IF created /\ temp_filename # input_name
               THEN remote_items \cup {"temp1"} ELSE remote_items
        /\ IF upload_temp_file(answer, temp_filename, input_name) = None
           THEN Return("Uploading")
           ELSE /\ pc' = "Waiting"
                /\ UNCHANGED <<failed, exit_status>>
    /\ UNCHANGED <<args, auth_credential, client, located, original_content,
                   scanned, updated_content, temp_filename,
                   local_save_successful, pdf_bytes, local_file,
                   calls, stages, interrupted, calls_at_interrupt>>

\* await asyncio.sleep(5), then download_as_pdf is entered and asks for a token
Wait ==
    /\ pc = "Waiting"
    /\ pc' = "Converting"
    /\ calls' = Append(calls, "get_token")
    /\ stages' = Append(stages, "Converting")
    /\ UNCHANGED <<args, auth_credential, client, located, original_content,
                   scanned, updated_content, temp_filename, temp_item_id,
                   local_save_successful, pdf_bytes, local_file, remote_items, failed,
                   interrupted, calls_at_interrupt, exit_status>>

\* local_save_successful = await download_as_pdf(...), then the finally block:
\* the delete is started, or main() ends
DownloadAsPdf ==
    /\ pc = "Converting"
    /\ \E token \in TokenAnswers, convert \in ConvertAnswers,
          pdf_get \in PdfGetAnswers, size \in PdfSizes, write \in WriteAnswers :
        LET wrote == reaches_write(auth_credential, token, convert, pdf_get, size)
            ok == download_as_pdf(auth_credential, token, convert, pdf_get,
                                  size, write)
            made == calls \o pdf_requests(auth_credential, token)
        IN  /\ PdfCalls(token, convert, pdf_get, size, write)
            /\ local_save_successful' = ok
            /\ pdf_bytes' = pdf_bytes_len(auth_credential, token, convert, pdf_get, size)
            /\ local_file' = IF ~wrote THEN local_file
                             ELSE IF write = "ok" THEN "pdf" ELSE "broken"
            /\ stages' = finally_block(IF wrote THEN Append(stages, "Saving")
                                       ELSE stages)
            /\ IF should_delete(temp_item_id, ok)
               THEN /\ pc' = "Cleaning"
                    /\ calls' = Append(made, "delete " \o temp_item_id)
                    /\ UNCHANGED <<failed, exit_status>>
               ELSE /\ Return(IF wrote THEN "Saving" ELSE "Converting")
                    /\ calls' = made
    /\ UNCHANGED <<args, auth_credential, client, located, original_content,
                   scanned, updated_content, temp_filename, temp_item_id, remote_items,
                   interrupted, calls_at_interrupt>>

\* delete_success = await delete_drive_item(...), then the last lines of main
Delete ==
    /\ pc = "Cleaning"
    /\ \E answer \in DeleteAnswers :
        remote_items' = IF delete_drive_item(answer)
                        THEN remote_items \ {temp_item_id} ELSE remote_items
    /\ Return(None)
    /\ UNCHANGED <<args, auth_credential, client, located, original_content,
                   scanned, updated_content, temp_filename, temp_item_id,
                   local_save_successful, pdf_bytes, local_file, calls, stages,
                   interrupted, calls_at_interrupt>>

\* what an interrupt leaves behind: asyncio.run cancels main(), the finally
\* block (if main() is inside the try block) finds local_save_successful
\* False and deletes nothing, asyncio.run raises KeyboardInterrupt and the
\* process exits with status 1
Interrupted(p) ==
    /\ interrupted' = TRUE
    /\ pc' = "Exited"
    /\ exit_status' = 1
    /\ stages' = IF p \in InTry THEN finally_block(stages) ELSE stages

\* The user interrupts the run while main() is suspended on an await or busy
\* in one of its two document passes; no request is made after that.  Inside
\* download_as_pdf the await is the one for the token or one of those for the
\* conversion.  The call under way may or may not have taken effect in the
\* store.
Interrupt ==
    /\ pc \in Running
    /\ Interrupted(pc)
    /\ \E made \in {<<>>, <<ConvertRequest>>} :
        /\ pc # "Converting" => made = <<>>
        /\ calls' = calls \o made
        /\ calls_at_interrupt' = Len(calls \o made)
    /\ \E effect \in BOOLEAN :
        remote_items' =
            IF pc = "Uploading" /\ effect THEN remote_items \cup {"temp1"}
            ELSE IF pc = "Cleaning" /\ effect THEN remote_items \ {temp_item_id}
            ELSE remote_items
    /\ UNCHANGED <<args, auth_credential, client, located, original_content,
                   scanned, updated_content, temp_filename, temp_item_id,
                   local_save_successful, pdf_bytes, local_file, failed>>

\* The user interrupts the run while download_as_pdf is running between two
\* of its awaits: it has the token and has not yet made the conversion
\* request.  From Python
\* 3.11 on asyncio.run answers SIGINT by cancelling the task of main(), which
\* takes effect at the next await only: the code runs on, run_in_executor
\* hands requests.get to a worker thread, which sends the request, and the
\* await of its result raises CancelledError.  (Up to 3.10 KeyboardInterrupt
\* is raised on the spot, which is Interrupt.)
InterruptBetweenAwaits ==
    /\ pc = "Converting"
    /\ Interrupted(pc)
    /\ calls_at_interrupt' = Len(calls)
    /\ calls' = Append(calls, ConvertRequest)
    /\ UNCHANGED <<args, auth_credential, client, located, original_content,
                   scanned, updated_content, temp_filename, temp_item_id,
                   local_save_successful, pdf_bytes, local_file, remote_items, failed>>

Next ==
    \/ Authenticate
    \/ Locate
    \/ Fetch
    \/ Scan
    \/ Substitute
    \/ Upload
    \/ Wait
    \/ DownloadAsPdf
    \/ Delete
    \/ Interrupt
    \/ InterruptBetweenAwaits

Spec == Init /\ [][Next]_vars

(***************************************************************************)
(* Properties of the workflow.                                             *)
(***************************************************************************)
InStages(s) == \E i \in 1..Len(stages) : stages[i] = s

Called(c) == \E i \in 1..Len(calls) : calls[i] = c

\* delete_drive_item has been invoked on the temporary item
DeleteIssued == temp_item_id # None /\ Called("delete " \o temp_item_id)

\* some delete request has been issued at all
AnyDelete == \E i \in 1..Len(calls) : calls[i] \notin
    {"me.get", "drive.get", "content.get", "content.put", "get_token",
     ConvertRequest}

\* C1: delete_drive_item is never invoked on the temporary item unless
\* download_as_pdf returned True, that is unless the converted bytes were
\* written to the local output path; after every failure that follows the
\* upload no delete has been issued.
C1_DeleteOnlyAfterSave ==
    AnyDelete => (local_save_successful /\ local_file = "pdf" /\ DeleteIssued)

\* a run that uploaded the temporary item, failed afterwards and ended with
\* the item still in the store and no delete issued
C1_Witness ==
    /\ pc = "Exited"
    /\ temp_item_id = "temp1"
    /\ failed = "Saving"
    /\ local_file = "broken"
    /\ "temp1" \in remote_items
    /\ ~AnyDelete

\* C2: when upload, conversion and local save have all succeeded, the delete
\* of the item the upload returned has been issued by the time main() has
\* terminated.
C2_DeleteAfterSave ==
    (pc = "Exited" /\ temp_item_id # None /\ local_file = "pdf") => DeleteIssued

\* a run that saved the PDF, issued the delete and ended
C2_Witness ==
    /\ pc = "Exited"
    /\ local_file = "pdf"
    /\ local_save_successful
    /\ DeleteIssued
    /\ "temp1" \notin remote_items

\* C3: the exit status is 0 on full success and 1 on any fatal failure or
\* user interrupt.
C3_ExitStatus ==
    pc = "Exited" =>
        exit_status = (IF failed = None /\ ~interrupted /\ local_save_successful
                       THEN 0 ELSE 1)

Forward == SelectSeq(stages, LAMBDA st : st # "Cleaning")

\* C4: the forward stages are started in the order Authenticating .. Saving,
\* each only after every earlier one has succeeded: Locating with a client,
\* Fetching with the three identifiers, Scanning with the template bytes,
\* Uploading with the substituted bytes, Converting with a temporary item id,
\* Saving with converted bytes; a run that failed at Locating has issued
\* neither the content fetch nor the upload.
C4_StagesInOrder ==
    /\ Forward = SubSeq(StageOrder, 1, Len(Forward))
    /\ Len(Forward) <= 8
    /\ InStages("Locating") => client # None
    /\ InStages("Fetching") =>
            (original_item_id # None /\ parent_folder_id # None /\ drive_id # None)
    /\ InStages("Scanning") => original_content # NoneBytes
    /\ InStages("Uploading") => updated_content # NoneBytes
    /\ InStages("Converting") => temp_item_id # None
    /\ InStages("Saving") => local_file # "absent"
    /\ failed \notin {None, "Cleaning"} => Forward[Len(Forward)] = failed
    /\ failed = "Locating" => (~Called("content.get") /\ ~Called("content.put"))

\* a run that stopped at Locating
C4_Witness ==
    /\ pc = "Exited"
    /\ failed = "Locating"
    /\ stages = <<"Authenticating", "Locating">>
    /\ calls = <<"me.get", "drive.get">>

(***************************************************************************)
(* Properties of the substitution, stated where replace_placeholders has   *)
(* just returned bytes and the upload is under way (original_content,      *)
(* the sets of keys and updated_content do not change after that).         *)
(***************************************************************************)
Substituted == pc = "Uploading"

\* the run texts of a package, paragraph by paragraph
DocTexts(content) ==
    [i \in 1..Len(AllParas(content.doc)) |->
        [j \in 1..Len(AllParas(content.doc)[i]) |->
            AllParas(content.doc)[i][j].text]]

HasBracket(t) == \E i \in 1..Len(t) : t[i] \in {"[", "]"}

\* no key and no value of the replacements holds a delimiter character
PlainItems(defs, addl) ==
    /\ \A i \in 1..Len(defs) : ~HasBracket(defs[i].key) /\ ~HasBracket(defs[i].value)
    /\ \A k \in addl : ~HasBracket(k)

\* t has an opening delimiter followed by another one before any closing one
Nested(t) ==
    \E i, j \in 1..Len(t) :
        /\ i < j
        /\ IsAt(Open, t, i)
        /\ IsAt(Open, t, j)
        /\ ~\E c \in (i + 2)..(j - 2) : IsAt(Close, t, c)

\* no run of the document has nested delimiters
NoNestedRuns(d) ==
    \A i \in 1..Len(AllParas(d)) :
        \A j \in 1..Len(AllParas(d)[i]) : ~Nested(AllParas(d)[i][j].text)

\* the second application of replace_placeholders, with the arguments of the
\* first, leaves the text of its output as it is
SecondPassKeepsText ==
    \A o \in Orders(addl_to_remove) :
        DocTexts(replace_placeholders(updated_content, definitions, o,
                                      preserve_color, force_all_black))
            = DocTexts(updated_content)

\* C5 as claimed (here for values without delimiters and templates without
\* nested delimiters, the cases the claim names): scanning the output of
\* replace_placeholders returns no key of the DefinitionMap, also for a token
\* split over adjacent runs and for a token with blanks inside the delimiters.
C5_RescanFindsNoDefinedKey ==
    (/\ Substituted
     /\ PlainItems(definitions, addl_to_remove)
     /\ NoNestedRuns(original_content.doc))
        => find_placeholders_in_docx(updated_content) \cap DictKeys(definitions) = {}

\* C6 as claimed, in its conclusion: the text of every paragraph after the
\* substitution is its text before with all replacements applied to the
\* concatenated runs, a token that spans several runs included.
C6_ParagraphTextReplaced ==
    Substituted =>
        \A o \in Orders(addl_to_remove) :
            \A i \in 1..Len(AllParas(original_content.doc)) :
                para_text(AllParas(updated_content.doc)[i])
                    = replace_in_run(para_text(AllParas(original_content.doc)[i]),
                                     FALSE,
                                     all_replacements(definitions, o)).text

\* C7 as claimed: applying replace_placeholders to its own output with the
\* same DefinitionMap gives the same text, also when a value holds a token.
C7_Idempotent == Substituted => SecondPassKeepsText

\* C7 amended: substitution is idempotent when no key and no value holds a
\* delimiter character and no run of the template has nested delimiters.
C7_IdempotentPlain ==
    (/\ Substituted
     /\ PlainItems(definitions, addl_to_remove)
     /\ NoNestedRuns(original_content.doc))
        => SecondPassKeepsText

\* a template with two tokens of K in one run, both replaced by a plain value
C7_Witness ==
    /\ Substituted
    /\ PlainItems(definitions, addl_to_remove)
    /\ NoNestedRuns(original_content.doc)
    /\ definitions = <<Item(K, K)>>
    /\ \E i \in 1..Len(DocTexts(original_content)) :
        \E j \in 1..Len(DocTexts(original_content)[i]) :
            /\ DocTexts(original_content)[i][j] = placeholder(K) \o <<"x">> \o placeholder(K)
            /\ DocTexts(updated_content)[i][j] = <<"K", "x", "K">>

\* C8 as claimed: every found key that starts with ADDL_ and has no
\* definition is absent from the warning and gone from the output (a scan of
\* the output does not find it again).
C8_AddlRemoved ==
    Substituted =>
        \A k \in found_placeholders :
            (startswith(k, ADDL_PREFIX) /\ k \notin DictKeys(definitions))
                => /\ k \notin reportable_undefined
                   /\ k \notin find_placeholders_in_docx(updated_content)

\* the occurrences of sub in s
Count(sub, s) == Cardinality({i \in 1..Len(s) : IsAt(sub, s, i)})

\* the tokens, as written, that make the scan of paragraph para return key k
TokensOf(k, para) ==
    {placeholder(m) : m \in
        {g \in UNION {placeholder_pattern_findall(para[i].text) : i \in 1..Len(para)}
                \cup placeholder_pattern_findall(para_text(para)) : strip(g) = k}}

\* every occurrence of token tok in the paragraphs of the template is still
\* there in the output, in the runs and in the paragraph text
TokenKept(tok) ==
    \A i \in 1..Len(AllParas(original_content.doc)) :
        LET p == AllParas(original_content.doc)[i]
            q == AllParas(updated_content.doc)[i]
        IN  /\ Count(tok, para_text(q)) >= Count(tok, para_text(p))
            /\ \A j \in 1..Len(p) : Count(tok, q[j].text) >= Count(tok, p[j].text)

AllTokensOf(k) ==
    UNION {TokensOf(k, AllParas(original_content.doc)[i]) :
                i \in 1..Len(AllParas(original_content.doc))}

\* the keys replace_placeholders replaces in this run
ReplacedKeys == DictKeys(definitions) \cup addl_to_remove

\* tok, a token of key k, shares characters with the token of another key,
\* one that is replaced
Entangled(tok, k) ==
    \E r \in ReplacedKeys \ {k} :
        str_in(placeholder(r), tok) \/ str_in(tok, placeholder(r))

\* C9 as claimed: every found key that does not start with ADDL_ and has no
\* definition is listed in the warning, and every occurrence of its token is
\* unchanged in the output whatever else is replaced.
C9_UndefinedUnchanged ==
    Substituted =>
        \A k \in found_placeholders :
            (~startswith(k, ADDL_PREFIX) /\ k \notin DictKeys(definitions))
                => /\ k \in reportable_undefined
                   /\ \A tok \in AllTokensOf(k) : TokenKept(tok)

\* C9 amended: such a key is listed in the warning, and every occurrence of
\* its token is unchanged in the output unless the token shares characters
\* with the token of another, replaced key (nested delimiters).
C9_UndefinedKept ==
    Substituted =>
        \A k \in found_placeholders :
            (~startswith(k, ADDL_PREFIX) /\ k \notin DictKeys(definitions))
                => /\ k \in reportable_undefined
                   /\ \A tok \in AllTokensOf(k) : ~Entangled(tok, k) => TokenKept(tok)

\* K is found without a definition, with blanks inside its delimiters, next
\* to a token of ADDL_N that is removed
C9_Witness ==
    /\ Substituted
    /\ definitions = <<>>
    /\ K \in reportable_undefined
    /\ addl_to_remove = {ADDL_N}
    /\ DocTexts(original_content) =
            << <<placeholder(<<" ">> \o K \o <<" ">>), placeholder(ADDL_N)>> >>
    /\ DocTexts(updated_content) =
            << <<placeholder(<<" ">> \o K \o <<" ">>), <<>> >> >>

\* replace_placeholders has just returned, with bytes or with None
SubstituteReturned ==
    pc = "Uploading" \/ (pc = "Exited" /\ failed = "Substituting")

\* C10 as claimed: with an empty DefinitionMap and an empty removal set
\* replace_placeholders returns its input bytes, whatever the colour flags
\* are and whether or not the input parses as a document.
C10_NoOpReturnsInput ==
    (SubstituteReturned /\ definitions = <<>> /\ addl_to_remove = {})
        => updated_content = original_content

\* C10 amended: with an empty DefinitionMap and an empty removal set
\* replace_placeholders returns its input bytes, whatever the colour flags
\* are, for every input that parses as a document.
C10_NoOpReturnsParsedInput ==
    (/\ SubstituteReturned
     /\ definitions = <<>>
     /\ addl_to_remove = {}
     /\ Parses(original_content))
        => updated_content = original_content

\* a template with a token, no definitions and --force-all-black: the bytes
\* come back as they were downloaded
C10_Witness ==
    /\ SubstituteReturned
    /\ definitions = <<>>
    /\ addl_to_remove = {}
    /\ force_all_black
    /\ Parses(original_content)
    /\ K \in found_placeholders
    /\ updated_content = original_content
    /\ updated_content.ser = "orig"

(***************************************************************************)
(* Properties of a run whose template is no .docx package.                 *)
(***************************************************************************)
\* the template bytes were downloaded and docx.Document rejects them
Unparseable == original_content # NoneBytes /\ ~Parses(original_content)

\* C11 as claimed: when the template does not parse, the scan returns the
\* empty set and the run is not blocked by it: a run that ends has gone past
\* Scanning and Substituting and has started the upload.
C11_ParseFailureNotBlocking ==
    (Unparseable /\ pc = "Exited" /\ ~interrupted)
        => (found_placeholders = {} /\ InStages("Uploading"))

\* C11 amended: when the template does not parse, the scan returns the empty
\* set (nothing to remove, nothing to report) and does not end the run, which
\* goes on to Substituting; there replace_placeholders parses the same bytes,
\* returns None, and the run (unless the user interrupts it) ends at
\* Substituting without an upload.
C11_ParseFailureEndsAtSubstituting ==
    (Unparseable /\ pc \notin {"Scanning", "Substituting"} /\ ~interrupted)
        => /\ found_placeholders = {}
           /\ addl_to_remove = {}
           /\ reportable_undefined = {}
           /\ InStages("Substituting")
           /\ pc = "Exited"
           /\ failed = "Substituting"
           /\ updated_content = NoneBytes
           /\ ~Called("content.put")

\* a run on one byte that is no package, with a definition: it ended at
\* Substituting
C11_Witness ==
    /\ original_content = RawBytes(1)
    /\ definitions = <<Item(K, K)>>
    /\ found_placeholders = {}
    /\ stages = <<"Authenticating", "Locating", "Fetching", "Scanning", "Substituting">>
    /\ pc = "Exited"
    /\ failed = "Substituting"

(***************************************************************************)
(* Properties of the end of a run.                                         *)
(***************************************************************************)
\* C12: a run that has obtained a temporary item id and then ends, because
\* the conversion or the save failed or because an exception (the
\* cancellation after an interrupt) was raised while waiting or converting,
\* has taken the decision of the finally block as its last step, exactly once.
C12_CleaningBeforeExit ==
    (pc = "Exited" /\ temp_item_id # None)
        => /\ stages[Len(stages)] = "Cleaning"
           /\ Len(SelectSeq(stages, LAMBDA st : st = "Cleaning")) = 1

\* a run cancelled while it waited for the conversion: the finally block ran
\* and left the temporary item alone
C12_Witness ==
    /\ pc = "Exited"
    /\ interrupted
    /\ temp_item_id = "temp1"
    /\ ~InStages("Saving")
    /\ stages[Len(stages)] = "Cleaning"
    /\ ~AnyDelete
    /\ "temp1" \in remote_items

\* C13 as claimed: a conversion body that is tiny or empty (0 bytes up to the
\* small-size threshold) is saved to the local path with a warning, and
\* download_as_pdf returns success for it (the write itself not failing).
C13_TinyPdfSaved ==
    (pdf_bytes >= 0 /\ very_small(pdf_bytes) /\ local_file # "broken")
        => (local_save_successful /\ local_file = "pdf")

\* the warning "Saved PDF file ... is very small" has been logged
SmallPdfWarning == local_save_successful /\ very_small(pdf_bytes)

\* C13 amended: a conversion body that is tiny but not empty (1 byte up to
\* the small-size threshold) is saved to the local path with a warning and
\* download_as_pdf returns success for it (the write itself not failing); an
\* empty body is a failure: nothing is written and no warning of a small
\* file is given.
C13_NonEmptyTinyPdfSaved ==
    /\ (pdf_bytes > 0 /\ very_small(pdf_bytes) /\ local_file # "broken")
            => (local_save_successful /\ local_file = "pdf" /\ SmallPdfWarning)
    /\ pdf_bytes = 0
            => (~local_save_successful /\ local_file = "absent" /\ ~SmallPdfWarning)

\* a body of 500 bytes was saved, the run went on to delete the temporary item
C13_Witness ==
    /\ pdf_bytes = 500
    /\ local_save_successful
    /\ local_file = "pdf"
    /\ SmallPdfWarning
    /\ pc = "Cleaning"

(***************************************************************************)
(* Properties of the colours after the substitution.                       *)
(***************************************************************************)
\* the positions of the runs of the template
RunsAt ==
    UNION {{<<i, j>> : j \in 1..Len(AllParas(original_content.doc)[i])} :
                i \in 1..Len(AllParas(original_content.doc))}

RunBefore(ij) == AllParas(original_content.doc)[ij[1]][ij[2]]
RunAfter(ij) == AllParas(updated_content.doc)[ij[1]][ij[2]]

IsBlack(run) == run.rgb = Black /\ run.theme = NoColor
SameColor(r1, r2) == r1.rgb = r2.rgb /\ r1.theme = r2.theme

\* the substitution has changed the run
Modified(ij) == RunAfter(ij).text # RunBefore(ij).text

\* there is something to replace or to remove
SomethingToReplace == definitions # <<>> \/ addl_to_remove # {}

\* the three policies where they apply
PreservePolicy ==
    (preserve_color /\ ~force_all_black)
        => \A ij \in RunsAt : SameColor(RunAfter(ij), RunBefore(ij))

DefaultPolicy ==
    (~preserve_color /\ ~force_all_black)
        => \A ij \in RunsAt :
                IF Modified(ij) THEN IsBlack(RunAfter(ij))
                ELSE SameColor(RunAfter(ij), RunBefore(ij))

Scanned == pc = "Substituting"

\* what may stand between the delimiters of a token of the templates
Inners == {K, <<" ">> \o K \o <<" ">>, ADDL_N}

\* C15: the scan returns the trimmed key of every token of the pattern
\* `[[...]]` (leftmost, non-greedy) in the concatenated text of every body
\* and table-cell paragraph, a token split over adjacent runs included; in a
\* paragraph without nested delimiters that is every token written there.
C15_ScanFindsParagraphTokens ==
    Scanned =>
        \A i \in 1..Len(AllParas(original_content.doc)) :
            LET t == para_text(AllParas(original_content.doc)[i])
            IN  /\ \A m \in placeholder_pattern_findall(t) :
                        strip(m) \in found_placeholders
                /\ ~Nested(t) =>
                        \A m \in Inners :
                            str_in(placeholder(m), t) => strip(m) \in found_placeholders

\* a table-cell paragraph whose token of K is split over its two runs, and
\* K is found
C15_Witness ==
    /\ Scanned
    /\ original_content.doc.body = <<>>
    /\ DocTexts(original_content) = << <<Open, K \o Close>> >>
    /\ found_placeholders = {K}

(***************************************************************************)
(* Properties of an interrupted run.                                       *)
(***************************************************************************)
\* C16 as claimed: after a user interrupt, at whatever point of the run, no
\* further remote call is issued (the calls are those issued when the
\* interrupt arrived) and the process exits with status 1.
C16_InterruptStopsCalls ==
    interrupted =>
        /\ Len(calls) = calls_at_interrupt
        /\ pc = "Exited"
        /\ exit_status = 1

(***************************************************************************)
(* Properties of the located item.  The store gives "folder1" as parent    *)
(* reference and "root1" as id of its root; a parent_folder_id of "root1"  *)
(* is the script's stand-in for an absent parent reference.                *)
(***************************************************************************)
\* main() has gone past Locating
Proceeded == InStages("Fetching")

\* C17 as claimed: the run goes past Locating only with three non-empty
\* identifiers, and an item without parent reference is accepted only when
\* it is the root of the store; one that is not the root does not proceed.
C17_ParentlessOnlyRoot ==
    Proceeded =>
        /\ original_item_id # None /\ parent_folder_id # None /\ drive_id # None
        /\ parent_folder_id = "root1" => original_item_id = "root1"

\* C17 amended: the run goes past Locating only with three non-empty
\* identifiers; an item without parent reference is accepted with the id of
\* the root as parent, which is its own id only when it is the root itself,
\* and it does not proceed only when the id of the root cannot be fetched.
C17_ParentlessGetsRoot ==
    /\ Proceeded =>
        /\ original_item_id # None /\ parent_folder_id # None /\ drive_id # None
        /\ parent_folder_id \in {"folder1", "root1"}
        /\ parent_folder_id = original_item_id => original_item_id = "root1"
    /\ (failed = "Locating" /\ original_item_id # None /\ drive_id # None)
            => parent_folder_id = None

\* an item that is not the root and has no parent reference went on to the
\* fetch with the root as parent
C17_Witness ==
    /\ Proceeded
    /\ original_item_id = "item1"
    /\ parent_folder_id = "root1"
    /\ Called("content.get")

(***************************************************************************)
(* Properties of the run as a whole.                                       *)
(***************************************************************************)
NoDuplicates(seq) == \A i, j \in 1..Len(seq) : seq[i] = seq[j] => i = j

\* C18: no stage is attempted twice in a run (no call is issued twice and no
\* stage started twice), a stage that failed ends the run, and the run
\* creates at most one temporary item.
C18_NoRetries ==
    /\ NoDuplicates(calls)
    /\ NoDuplicates(stages)
    /\ failed # None => pc = "Exited"
    /\ Cardinality(remote_items \ {"item1"}) <= 1

\* a run whose upload failed: one content.put, no second attempt, no item
C18_Witness ==
    /\ pc = "Exited"
    /\ failed = "Uploading"
    /\ calls = <<"me.get", "drive.get", "content.get", "content.put">>
    /\ remote_items = {"item1"}

\* the delete requests of the run
Deletes == SelectSeq(calls, LAMBDA c : c \notin
    {"me.get", "drive.get", "content.get", "content.put", "get_token",
     ConvertRequest})

\* C19: the template is never deleted and never overwritten: the only id
\* passed to delete_drive_item is the one upload_temp_file returned, which is
\* not the id of the template; the name <stem>_temp_<hex><suffix> differs from
\* the name it is made from, whatever that is, and the upload goes to the
\* parent folder under that name; the template is in the store at every
\* moment of the run.
C19_TemplateUntouched ==
    /\ "item1" \in remote_items
    /\ temp_item_id # "item1"
    /\ \A i \in 1..Len(Deletes) :
            temp_item_id # None /\ Deletes[i] = "delete " \o temp_item_id
    /\ pc = "Uploading" =>
            \A name \in FileNames, hex \in Hexes :
                /\ temp_filename_of(name, hex) # name
                /\ Len(temp_filename_of(name, hex)) = Len(name) + 6 + Len(hex)
    /\ Called("content.put") =>
            /\ parent_folder_id # None
            /\ temp_filename # input_name
            /\ \E hex \in Hexes :
                    temp_filename = path_stem(input_name)
                        \o <<"_", "t", "e", "m", "p", "_">> \o hex
                        \o path_suffix(input_name)

\* a run on the template a.d that uploaded a_temp_0.d, saved the PDF and had
\* the temporary item deleted: the template is still there
C19_Witness ==
    /\ pc = "Exited"
    /\ input_name = <<"a", ".", "d">>
    /\ temp_filename = <<"a", "_", "t", "e", "m", "p", "_", "0", ".", "d">>
    /\ Deletes = <<"delete temp1">>
    /\ remote_items = {"item1"}

====
